---------------------------- MODULE Spec2Model ----------------------------
(***************************************************************************)
(* The trade and logistics dashboard (dashboard.py) as a state machine.    *)
(*                                                                         *)
(* dashboard.py is a Streamlit script: every run executes it from the top  *)
(* (load_data, the two sidebar widgets, filter_data, the three tabs, the   *)
(* footer); a change of a widget, or a rerun request, starts a new run in  *)
(* a fresh namespace.  What outlives a run is the st.cache_data memo of    *)
(* load_data and the widgets' session state.                               *)
(*                                                                         *)
(* Cells of the dataset are floats: a finite value is <<"fin", n, d>> (the *)
(* reduced fraction n/d), a missing cell or an undefined result is NaN,    *)
(* and a division by zero gives PosInf or NegInf, as numpy's does.         *)
(* A Python variable that is not bound yet is None == {}, a bound one is   *)
(* Some(v) == {v}.                                                         *)
(***************************************************************************)
EXTENDS Integers, Sequences, FiniteSets, TLC

VARIABLES
    source,            \* data/Oc_data.xlsx as read_excel finds it
    cache,             \* st.cache_data's memo of load_data()
    pc,                \* where the current run of the script is
    df,                \* the script's df (line 103)
    notice,            \* st.sidebar.success / st.error of lines 104, 106
    exc,               \* the uncaught exception that ended the run
    session,           \* the widgets' values, kept across runs
    widgets,           \* the widgets built so far in this run
    selected_year,     \* line 115
    selected_country,  \* line 123
    filtered_df,       \* line 147
    page,              \* what each tab shows: "none", "nodata", "kpis"
    kpi,               \* the aggregates computed for the KPI cards
    time_df,           \* line 214 / 216
    first_df,          \* history: the value the first load_data() computed
    cache_hit          \* history: this run's load_data() came from the memo

vars == <<source, cache, pc, df, notice, exc, session, widgets, selected_year,
          selected_country, filtered_df, page, kpi, time_df, first_df, cache_hit>>

----------------------------------------------------------------------------
(* Bounds of the model. *)

\* The dataset holds between 1 and MaxRows records.
MaxRows == 2

----------------------------------------------------------------------------
(* Python's None and float64 arithmetic. *)

None == {}
Some(v) == {v}
The(o) == CHOOSE v \in o : TRUE

NaN == <<"nan", 0, 1>>
PosInf == <<"inf", 1, 0>>
NegInf == <<"inf", -1, 0>>
Fin(n) == <<"fin", n, 1>>

IsFin(x) == x[1] = "fin"
IsNa(x) == x[1] = "nan"

Abs(n) == IF n < 0 THEN -n ELSE n

RECURSIVE GCD(_, _)
GCD(a, b) == IF b = 0 THEN a ELSE GCD(b, a % b)

\* The fraction n/d, d > 0, reduced.
Rat(n, d) ==
    LET g == GCD(Abs(n), d)
    IN  IF n = 0 THEN <<"fin", 0, 1>> ELSE <<"fin", n \div g, d \div g>>

\* a + b of two finite floats.
Add(a, b) == Rat(a[2] * b[3] + b[2] * a[3], a[3] * b[3])

\* a <= b of two finite floats.
Leq(a, b) == a[2] * b[3] <= b[2] * a[3]

\* a / b as numpy divides float64 values that are finite or NaN: a NaN operand
\* gives NaN, x/0 gives +-inf, 0/0 gives NaN; nothing is raised.
Div(a, b) ==
    IF IsNa(a) \/ IsNa(b) THEN NaN
    ELSE IF b[2] = 0
         THEN IF a[2] = 0 THEN NaN ELSE IF a[2] > 0 THEN PosInf ELSE NegInf
         ELSE IF b[2] > 0 THEN Rat(a[2] * b[3], a[3] * b[2])
                          ELSE Rat(-(a[2] * b[3]), a[3] * (-b[2]))

\* Series.sum(): NaN cells are skipped (skipna=True); an empty sum is 0.
RECURSIVE SumSkipNa(_)
SumSkipNa(s) ==
    IF s = <<>> THEN Fin(0)
    ELSE IF IsNa(Head(s)) THEN SumSkipNa(Tail(s))
         ELSE Add(Head(s), SumSkipNa(Tail(s)))

\* The number of cells that are not NaN.
RECURSIVE CountNotNa(_)
CountNotNa(s) ==
    IF s = <<>> THEN 0
    ELSE (IF IsNa(Head(s)) THEN 0 ELSE 1) + CountNotNa(Tail(s))

\* Series.mean() and DataFrame.mean(axis=1): the mean of the cells that are not
\* NaN, and NaN when there is none.
MeanSkipNa(s) ==
    IF CountNotNa(s) = 0 THEN NaN ELSE Div(SumSkipNa(s), Fin(CountNotNa(s)))

\* sorted(...) of a set of integers.
RECURSIVE Sorted(_)
Sorted(S) ==
    IF S = {} THEN <<>>
    ELSE LET m == CHOOSE x \in S : \A y \in S : x <= y
         IN  <<m>> \o Sorted(S \ {m})

\* df[column] as a sequence of cells.
Column(t, c) == [i \in 1..Len(t) |-> t[i][c]]

----------------------------------------------------------------------------
(* The dataset. *)

lpi_columns ==
    <<"LPI_CUSTOM", "LPI_INFRA", "LPI_EASE", "LPI_QUALITY", "LPI_TRACK", "LPI_TIME">>

LpiSet == {lpi_columns[i] : i \in 1..Len(lpi_columns)}

AllColumns ==
    {"Country", "Year", "Export", "Import", "Total", "Trade_Balance", "GDP",
     "Population"} \cup LpiSet

Countries == {"Fiji", "Tonga"}
Years == {2010, 2012}

\* A record's numeric cells: Export, Import, Total, Trade Balance, GDP,
\* Population and the six LPI sub-scores.
Cells(ex, im, to, tb, gdp, pop, lpi) ==
    [Export |-> ex, Import |-> im, Total |-> to, Trade_Balance |-> tb,
     GDP |-> gdp, Population |-> pop,
     LPI_CUSTOM |-> lpi[1], LPI_INFRA |-> lpi[2], LPI_EASE |-> lpi[3],
     LPI_QUALITY |-> lpi[4], LPI_TRACK |-> lpi[5], LPI_TIME |-> lpi[6]]

\* The numeric cells a record may hold (money in 1e8 USD, people in 1e5): the
\* two records of the specification's scenario, a record with a zero
\* population, one with a zero population and no trade, and one with a negative
\* balance and no population cell.  Sub-scores are in [0, 5] or missing.
RawData ==
    { Cells(Fin(10), Fin(20), Fin(30), Fin(-10), Fin(40), Fin(10),
            <<Fin(3), Fin(3), Fin(3), Fin(3), Fin(3), Fin(3)>>),
      Cells(Fin(5), Fin(5), Fin(10), Fin(0), Fin(5), Fin(1),
            <<Fin(2), Fin(2), Fin(2), Fin(2), Fin(2), Fin(3)>>),
      Cells(Fin(1), Fin(1), Fin(2), Fin(0), Fin(1), Fin(0),
            <<NaN, Fin(3), Fin(3), Fin(3), Fin(3), Fin(0)>>),
      Cells(Fin(0), Fin(0), Fin(0), Fin(0), Fin(0), Fin(0),
            <<Fin(5), Fin(5), Fin(5), Fin(5), Fin(5), Fin(5)>>),
      Cells(Fin(2), Fin(4), Fin(6), Fin(-2), Fin(3), NaN,
            <<NaN, NaN, NaN, NaN, NaN, NaN>>) }

RawRecord(c, y, cells) ==
    [Country |-> c, Year |-> y] @@ cells

RawRecords == {RawRecord(c, y, d) : c \in Countries, y \in Years, d \in RawData}

\* (Country, Year) is the key of the dataset: no two records share it.
UniqueKeys(t) ==
    \A i, j \in 1..Len(t) :
        (t[i].Country = t[j].Country /\ t[i].Year = t[j].Year) => i = j

RawTables ==
    {t \in UNION {[1..n -> RawRecords] : n \in 1..MaxRows} : UniqueKeys(t)}

\* The columns the sheet may lack (at most one).
DroppedColumns == {"LPI_TRACK", "Population", "Year"}

Sources ==
    {[readable |-> FALSE, columns |-> AllColumns, rows |-> <<>>]}
    \cup {[readable |-> TRUE, columns |-> cols, rows |-> t] :
            cols \in {AllColumns} \cup {AllColumns \ {c} : c \in DroppedColumns},
            t \in RawTables}

----------------------------------------------------------------------------
(* load_data, lines 87-99. *)

\* One prepared record: the raw record with Avg_LPI and Trade_per_Capita.
Prepare(r) ==
    r @@ [Avg_LPI |-> MeanSkipNa([i \in 1..Len(lpi_columns) |-> r[lpi_columns[i]]]),
          Trade_per_Capita |-> Div(r.Total, r.Population)]

\* load_data reading a missing Total or Population column as empty instead of
\* raising.
load_data_lenient(src) ==
    IF ~src.readable
    THEN [raised |-> "FileNotFoundError", value |-> <<>>]
    ELSE IF ~(LpiSet \subseteq src.columns)
         THEN [raised |-> "KeyError", value |-> <<>>]
         ELSE [raised |-> "none",
               value |-> [i \in 1..Len(src.rows) |->
                            src.rows[i] @@
                            [Avg_LPI |-> MeanSkipNa([k \in 1..Len(lpi_columns) |->
                                                        src.rows[i][lpi_columns[k]]]),
                             Trade_per_Capita |-> NaN]]]

\* The body of load_data: the exception it raises, or the prepared table.
load_data(src) ==
    IF ~src.readable
    THEN [raised |-> "FileNotFoundError", value |-> <<>>]
    ELSE IF ~(LpiSet \subseteq src.columns)
         THEN [raised |-> "KeyError", value |-> <<>>]
         ELSE IF ~({"Total", "Population"} \subseteq src.columns)
              THEN [raised |-> "KeyError", value |-> <<>>]
              ELSE [raised |-> "none",
                    value |-> [i \in 1..Len(src.rows) |-> Prepare(src.rows[i])]]

----------------------------------------------------------------------------
(* filter_data, lines 138-145. *)

\* filter_data without the country mask.
filter_data_year_only(t, year, countries) ==
    SelectSeq(t, LAMBDA r : r.Year = year)

\* filter_data falling back to the whole year when no selected country matches.
filter_data_fallback(t, year, countries) ==
    LET filtered == SelectSeq(t, LAMBDA r : r.Year = year)
        masked == SelectSeq(filtered, LAMBDA r : r.Country \in countries)
    IN  IF "All" \notin countries /\ masked # <<>> THEN masked ELSE filtered

\* filter_data taking the sentinel only when it is the whole selection.
filter_data_only_all(t, year, countries) ==
    LET filtered == SelectSeq(t, LAMBDA r : r.Year = year)
    IN  IF countries # {"All"}
        THEN SelectSeq(filtered, LAMBDA r : r.Country \in countries)
        ELSE filtered

filter_data(t, year, countries) ==
    LET filtered == SelectSeq(t, LAMBDA r : r.Year = year)
    IN  IF "All" \notin countries
        THEN SelectSeq(filtered, LAMBDA r : r.Country \in countries)
        ELSE filtered

----------------------------------------------------------------------------
(* The script's names and the aggregates of the tabs. *)

\* Whether the name px is bound when the tabs run.  The script imports
\* streamlit, pandas, plotly.graph_objects (go) and make_subplots, lines 1-5,
\* and nothing binds px: the first px.bar or px.scatter a run evaluates raises
\* NameError.
px_imported == FALSE

\* df has the column (df's columns are the sheet's and the two derived ones).
Has(c) == c \in source.columns

\* The years and countries of a table, for the widgets' options.
YearsOf(t) == {t[i].Year : i \in 1..Len(t)}
CountriesOf(t) == {t[i].Country : i \in 1..Len(t)}

\* Lines 213-216: the Export and Import sums by year, over every country when
\* 'All' is selected and over the selected countries otherwise.
trend(t, countries) ==
    LET sub == IF "All" \in countries
               THEN t
               ELSE SelectSeq(t, LAMBDA r : r.Country \in countries)
        ys == Sorted(YearsOf(sub))
        of(y) == SelectSeq(sub, LAMBDA r : r.Year = y)
    IN  [k \in 1..Len(ys) |->
            [Year |-> ys[k],
             Export |-> SumSkipNa(Column(of(ys[k]), "Export")),
             Import |-> SumSkipNa(Column(of(ys[k]), "Import"))]]

\* Lines 172-199: the four KPI aggregates of the Trade Overview.
tab1_kpis(v) ==
    { <<"total_export", SumSkipNa(Column(v, "Export"))>>,
      <<"total_import", SumSkipNa(Column(v, "Import"))>>,
      <<"trade_balance", SumSkipNa(Column(v, "Trade_Balance"))>>,
      <<"total_trade", SumSkipNa(Column(v, "Total"))>> }

\* Lines 287-305: the three KPI aggregates of the Economic Context.
tab2_kpis(v) ==
    { <<"total_gdp", SumSkipNa(Column(v, "GDP"))>>,
      <<"total_pop", SumSkipNa(Column(v, "Population"))>>,
      <<"avg_trade_per_capita",
        Div(SumSkipNa(Column(v, "Total")), SumSkipNa(Column(v, "Population")))>> }

\* Line 373: the KPI aggregate of the Logistics Performance.
tab3_kpis(v) ==
    { <<"avg_lpi", MeanSkipNa(Column(v, "Avg_LPI"))>> }

----------------------------------------------------------------------------
(* The state after construction: nothing has run yet. *)

NoPages == [k \in 1..3 |-> "none"]

Init ==
    /\ source \in Sources
    /\ cache = None
    /\ pc = "start"
    /\ df = None
    /\ notice = "none"
    /\ exc = "none"
    /\ session = [year |-> None, country |-> None]
    /\ widgets = {}
    /\ selected_year = None
    /\ selected_country = None
    /\ filtered_df = None
    /\ page = NoPages
    /\ kpi = {}
    /\ time_df = None
    /\ first_df = None
    /\ cache_hit = FALSE

----------------------------------------------------------------------------
(* One run of the script, top to bottom. *)

\* A memo that keeps the sheet as read, before the derived columns are added.
cache_data_raw(memo, src) ==
    IF memo # None
    THEN [raised |-> "none", value |-> The(memo), memo |-> memo, hit |-> TRUE]
    ELSE LET r == load_data(src)
         IN  [raised |-> r.raised, value |-> r.value,
              memo |-> IF r.raised = "none" THEN Some(src.rows) ELSE None,
              hit |-> FALSE]

\* @st.cache_data, line 87: a call returns the memoized value when there is
\* one; otherwise it runs load_data and memoizes what it returns (an exception
\* is not memoized).
cache_data(memo, src) ==
    IF memo # None
    THEN [raised |-> "none", value |-> The(memo), memo |-> memo, hit |-> TRUE]
    ELSE LET r == load_data(src)
         IN  [raised |-> r.raised, value |-> r.value,
              memo |-> IF r.raised = "none" THEN Some(r.value) ELSE None,
              hit |-> FALSE]

\* The uncaught exception e ends the run.
Raise(e) ==
    /\ exc' = e
    /\ pc' = "crashed"

\* Lines 102-107: df = load_data(); on an exception st.error and st.stop().
LoadData ==
    /\ pc = "start"
    /\ LET r == cache_data(cache, source)
       IN  /\ cache' = r.memo
           /\ cache_hit' = r.hit
           /\ IF r.raised = "none"
              THEN /\ df' = Some(r.value)
                   /\ first_df' = IF first_df = None THEN Some(r.value) ELSE first_df
                   /\ notice' = "success"
                   /\ pc' = "year_filter"
              ELSE /\ df' = None
                   /\ first_df' = first_df
                   /\ notice' = "error"
                   /\ pc' = "stopped"
    /\ UNCHANGED <<source, exc, session, widgets, selected_year, selected_country,
                   filtered_df, page, kpi, time_df>>

\* A widget that forgets the session's value.
widget_value_default(state, default) == default

\* What st.sidebar.selectbox and st.sidebar.multiselect return: the value the
\* session holds for the widget, and the default when it holds none yet.
widget_value(state, default) ==
    IF state = None THEN default ELSE The(state)

\* Lines 114-119: the year selectbox; its value defaults to the latest year.
YearFilter ==
    /\ pc = "year_filter"
    /\ IF ~Has("Year")
       THEN /\ Raise("KeyError")
            /\ UNCHANGED <<session, widgets, selected_year>>
       ELSE LET years == Sorted(YearsOf(The(df)))
                value == widget_value(session.year, years[Len(years)])
            IN  /\ selected_year' = Some(value)
                /\ session' = IF session.year = None
                              THEN [session EXCEPT !.year = Some(value)]
                              ELSE session
                /\ widgets' = widgets \cup {"year"}
                /\ pc' = "country_filter"
                /\ exc' = exc
    /\ UNCHANGED <<source, cache, df, notice, selected_country, filtered_df, page,
                   kpi, time_df, first_df, cache_hit>>

\* Lines 122-127: the country multiselect; its value defaults to ['All'].
CountryFilter ==
    /\ pc = "country_filter"
    /\ IF ~Has("Country")
       THEN /\ Raise("KeyError")
            /\ UNCHANGED <<session, widgets, selected_country>>
       ELSE LET value == widget_value(session.country, {"All"})
            IN  /\ selected_country' = Some(value)
                /\ session' = IF session.country = None
                              THEN [session EXCEPT !.country = Some(value)]
                              ELSE session
                /\ widgets' = widgets \cup {"country"}
                /\ pc' = "filter"
                /\ exc' = exc
    /\ UNCHANGED <<source, cache, df, notice, selected_year, filtered_df, page,
                   kpi, time_df, first_df, cache_hit>>

\* A filter that narrows df itself instead of a copy.
FilterCallInPlace ==
    /\ pc = "filter"
    /\ filtered_df' =
           Some(filter_data(The(df), The(selected_year), The(selected_country)))
    /\ df' = filtered_df'
    /\ pc' = "tab1"
    /\ UNCHANGED <<source, cache, notice, exc, session, widgets, selected_year,
                   selected_country, page, kpi, time_df, first_df, cache_hit>>

\* Line 147: filtered_df = filter_data(df, selected_year, selected_country).
FilterCall ==
    /\ pc = "filter"
    /\ filtered_df' =
           Some(filter_data(The(df), The(selected_year), The(selected_country)))
    /\ pc' = "tab1"
    /\ UNCHANGED <<source, cache, df, notice, exc, session, widgets, selected_year,
                   selected_country, page, kpi, time_df, first_df, cache_hit>>

\* Lines 162-274: the Trade Overview.  An empty view gives the warning; else
\* the four KPIs, the trend (time_df, drawn with go) and then px.bar.
Tab1 ==
    /\ pc = "tab1"
    /\ LET v == The(filtered_df)
       IN  IF Len(v) = 0
           THEN /\ page' = [page EXCEPT ![1] = "nodata"]
                /\ pc' = "tab2"
                /\ UNCHANGED <<exc, kpi, time_df>>
           ELSE IF ~({"Export", "Import", "Trade_Balance", "Total"} \subseteq source.columns)
                THEN /\ Raise("KeyError")
                     /\ UNCHANGED <<page, kpi, time_df>>
                ELSE /\ kpi' = kpi \cup tab1_kpis(v)
                     /\ page' = [page EXCEPT ![1] = "kpis"]
                     /\ time_df' = Some(trend(The(df), The(selected_country)))
                     /\ IF px_imported
                        THEN pc' = "tab2" /\ exc' = exc
                        ELSE Raise("NameError")
    /\ UNCHANGED <<source, cache, df, notice, session, widgets, selected_year,
                   selected_country, filtered_df, first_df, cache_hit>>

\* Lines 277-363: the Economic Context.  An empty view gives the warning; else
\* the three KPIs and then px.scatter.
Tab2 ==
    /\ pc = "tab2"
    /\ LET v == The(filtered_df)
       IN  IF Len(v) = 0
           THEN /\ page' = [page EXCEPT ![2] = "nodata"]
                /\ pc' = "tab3"
                /\ UNCHANGED <<exc, kpi>>
           ELSE /\ kpi' = kpi \cup tab2_kpis(v)
                /\ page' = [page EXCEPT ![2] = "kpis"]
                /\ IF px_imported
                   THEN pc' = "tab3" /\ exc' = exc
                   ELSE Raise("NameError")
    /\ UNCHANGED <<source, cache, df, notice, session, widgets, selected_year,
                   selected_country, filtered_df, time_df, first_df, cache_hit>>

\* The Logistics Performance without the guard of line 369.
Tab3Unguarded ==
    /\ pc = "tab3"
    /\ kpi' = kpi \cup tab3_kpis(The(filtered_df))
    /\ page' = [page EXCEPT ![3] = "kpis"]
    /\ IF px_imported
       THEN pc' = "footer" /\ exc' = exc
       ELSE Raise("NameError")
    /\ UNCHANGED <<source, cache, df, notice, session, widgets, selected_year,
                   selected_country, filtered_df, time_df, first_df, cache_hit>>

\* Lines 366-466: the Logistics Performance.  An empty view gives the warning;
\* else the KPI, the radar chart (drawn with go) and then px.scatter.
Tab3 ==
    /\ pc = "tab3"
    /\ LET v == The(filtered_df)
       IN  IF Len(v) = 0
           THEN /\ page' = [page EXCEPT ![3] = "nodata"]
                /\ pc' = "footer"
                /\ UNCHANGED <<exc, kpi>>
           ELSE /\ kpi' = kpi \cup tab3_kpis(v)
                /\ page' = [page EXCEPT ![3] = "kpis"]
                /\ IF px_imported
                   THEN pc' = "footer" /\ exc' = exc
                   ELSE Raise("NameError")
    /\ UNCHANGED <<source, cache, df, notice, session, widgets, selected_year,
                   selected_country, filtered_df, time_df, first_df, cache_hit>>

\* Lines 469-475: the footer; the run is over.
Footer ==
    /\ pc = "footer"
    /\ pc' = "done"
    /\ UNCHANGED <<source, cache, df, notice, exc, session, widgets, selected_year,
                   selected_country, filtered_df, page, kpi, time_df, first_df,
                   cache_hit>>

----------------------------------------------------------------------------
(* What starts a new run. *)

\* A new run: a fresh namespace and a cleared page; the memo and the session
\* state s are what it keeps.
Restart(s) ==
    /\ session' = s
    /\ pc' = "start"
    /\ df' = None
    /\ notice' = "none"
    /\ exc' = "none"
    /\ widgets' = {}
    /\ selected_year' = None
    /\ selected_country' = None
    /\ filtered_df' = None
    /\ page' = NoPages
    /\ kpi' = {}
    /\ time_df' = None
    /\ cache_hit' = FALSE
    /\ UNCHANGED <<source, cache, first_df>>

\* The user picks another year among the selectbox's options.
SelectYear ==
    /\ "year" \in widgets
    /\ \E y \in YearsOf(The(df)) :
          /\ Some(y) # session.year
          /\ Restart([session EXCEPT !.year = Some(y)])

\* The user adds an option of the multiselect to the selection, or removes one.
ToggleCountry ==
    /\ "country" \in widgets
    /\ \E c \in {"All"} \cup CountriesOf(The(df)) :
          LET old == The(session.country)
              new == IF c \in old THEN old \ {c} ELSE old \cup {c}
          IN  Restart([session EXCEPT !.country = Some(new)])

\* The user asks for a rerun of a run that is over.
Rerun ==
    /\ pc \in {"done", "crashed", "stopped"}
    /\ Restart(session)

Next ==
    \/ LoadData
    \/ YearFilter
    \/ CountryFilter
    \/ FilterCall
    \/ Tab1
    \/ Tab2
    \/ Tab3
    \/ Footer
    \/ SelectYear
    \/ ToggleCountry
    \/ Rerun

Spec == Init /\ [][Next]_vars

----------------------------------------------------------------------------
(* filter_data on its own: a call with any year and any selection, also a    *)
(* year and a country the table does not hold.                               *)

CallYears == Years \cup {2007}
CallCountries == SUBSET ({"All", "Samoa"} \cup Countries)

InitFilter ==
    /\ source \in {s \in Sources : s.readable /\ s.columns = AllColumns}
    /\ df = Some(load_data(source).value)
    /\ cache = df
    /\ first_df = df
    /\ cache_hit = FALSE
    /\ pc = "filter"
    /\ notice = "success"
    /\ exc = "none"
    /\ selected_year \in {Some(y) : y \in CallYears}
    /\ selected_country \in {Some(c) : c \in CallCountries}
    /\ session = [year |-> selected_year, country |-> selected_country]
    /\ widgets = {"year", "country"}
    /\ filtered_df = None
    /\ page = NoPages
    /\ kpi = {}
    /\ time_df = None

NextFilter == FilterCall

SpecFilter == InitFilter /\ [][NextFilter]_vars

----------------------------------------------------------------------------
(* The properties. *)

\* A record is of the year and, unless 'All' is selected, of a selected country.
Matches(r, year, countries) ==
    /\ r.Year = year
    /\ ("All" \in countries \/ r.Country \in countries)

\* The indices of the table's records that match.
Matching(t, year, countries) ==
    {j \in 1..Len(t) : Matches(t[j], year, countries)}

\* C1: filter_data returns exactly the records of the table whose Year is the
\* given year and, when the selection is not 'All', whose Country is selected:
\* every returned record is such a record of the table, none is missing and
\* none is returned twice; a selection of Fiji alone returns no Tonga record.
C1_FilterExact ==
    (filtered_df # None
       /\ (The(selected_country) = {"All"} \/ "All" \notin The(selected_country)))
    => LET t == The(df)
           v == The(filtered_df)
           y == The(selected_year)
           c == The(selected_country)
       IN  /\ \A i \in 1..Len(v) :
                 /\ Matches(v[i], y, c)
                 /\ \E j \in 1..Len(t) : t[j] = v[i]
           /\ \A j \in Matching(t, y, c) : \E i \in 1..Len(v) : v[i] = t[j]
           /\ Len(v) = Cardinality(Matching(t, y, c))
           /\ (c = {"Fiji"} => \A i \in 1..Len(v) : v[i].Country # "Tonga")

\* C1's case: Fiji alone is selected, the table holds Fiji and Tonga records of
\* the year, and the call has returned the Fiji record.
C1_Witness ==
    /\ filtered_df # None
    /\ selected_country = Some({"Fiji"})
    /\ \E j \in 1..Len(The(df)) :
          The(df)[j].Country = "Tonga" /\ The(df)[j].Year = The(selected_year)
    /\ Len(The(filtered_df)) = 1

\* C2: filter_data never signals an error: the call returns a view of the
\* table's records; a year the table does not hold, or a selection that shares
\* no country with the table, gives the empty view; and a selection gives the
\* view that its restriction to the countries of the table gives.
C2_FilterNeverFails ==
    (filtered_df # None)
    => LET t == The(df)
           v == The(filtered_df)
           y == The(selected_year)
           c == The(selected_country)
       IN  /\ exc = "none"
           /\ pc = "tab1"
           /\ \A i \in 1..Len(v) : \E j \in 1..Len(t) : t[j] = v[i]
           /\ (y \notin YearsOf(t) => v = <<>>)
           /\ (("All" \notin c /\ c \cap CountriesOf(t) = {}) => v = <<>>)
           /\ v = filter_data(t, y, c \cap (CountriesOf(t) \cup {"All"}))

\* C2's case: the call has returned for a selection that names only a country
\* the table does not hold.
C2_Witness ==
    /\ filtered_df = Some(<<>>)
    /\ selected_country = Some({"Samoa"})
    /\ The(selected_year) \in YearsOf(The(df))

\* The run has gone past tab k.
Passed(k) ==
    pc \in (CASE k = 1 -> {"tab2", "tab3", "footer", "done"}
              [] k = 2 -> {"tab3", "footer", "done"}
              [] k = 3 -> {"footer", "done"})

\* C3: when the filtered view is empty, each page the run has gone past shows
\* the 'no data' state, no aggregate has been computed (no KPI, no trend) and
\* nothing was raised.
C3_EmptyViewNoData ==
    (filtered_df = Some(<<>>))
    => /\ kpi = {}
       /\ time_df = None
       /\ exc = "none"
       /\ pc # "crashed"
       /\ \A k \in 1..3 : page[k] = IF Passed(k) THEN "nodata" ELSE "none"

\* C3's case: a run over an empty view has ended, the three pages rendered.
C3_Witness ==
    /\ filtered_df = Some(<<>>)
    /\ pc = "done"
    /\ \A k \in 1..3 : page[k] = "nodata"

\* C4: no record with a Population of 0 has an infinite or NaN
\* Trade_per_Capita in the prepared table, and no view-level trade-per-capita
\* that is computed is infinite or NaN.
C4_NoZeroDivisor ==
    /\ df # None =>
          \A i \in 1..Len(The(df)) :
              The(df)[i].Population = Fin(0) => IsFin(The(df)[i].Trade_per_Capita)
    /\ \A e \in kpi : e[1] = "avg_trade_per_capita" => IsFin(e[2])

\* Loading fails: the sheet cannot be read, or lacks an LPI column, Total or
\* Population.
LoadFails ==
    \/ ~source.readable
    \/ ~((LpiSet \cup {"Total", "Population"}) \subseteq source.columns)

\* C5: when loading fails the run goes from its start to the stop of line 107
\* and nowhere else: no widget is built, filter_data is not called, no page,
\* KPI or chart is rendered; the error is shown exactly when the run stopped.
C5_LoadFailureAborts ==
    /\ LoadFails =>
          /\ pc \in {"start", "stopped"}
          /\ df = None
          /\ widgets = {}
          /\ session = [year |-> None, country |-> None]
          /\ selected_year = None
          /\ selected_country = None
          /\ filtered_df = None
          /\ page = NoPages
          /\ kpi = {}
          /\ time_df = None
    /\ (pc = "stopped") <=> (notice = "error")
    /\ (pc = "stopped") => LoadFails

\* C5's case: the sheet has no Population column, and the run has stopped on
\* the error.
C5_Witness ==
    /\ source.readable
    /\ "Population" \notin source.columns
    /\ pc = "stopped"
    /\ notice = "error"

\* The six sub-scores of a record.
SubScores(r) == [i \in 1..Len(lpi_columns) |-> r[lpi_columns[i]]]

\* C6: every prepared record whose six sub-scores are present has their mean
\* as Avg_LPI, between 0 and 5; a record with a missing sub-score has no mean
\* computed over fewer than six values (its Avg_LPI is undefined).
C6_AvgLpiMeanOfSix ==
    df # None =>
       \A i \in 1..Len(The(df)) :
          LET r == The(df)[i]
          IN  IF \A k \in 1..6 : IsFin(SubScores(r)[k])
              THEN /\ IsFin(r.Avg_LPI)
                   /\ r.Avg_LPI[2] * 6 = SumSkipNa(SubScores(r))[2] * r.Avg_LPI[3]
                   /\ Leq(Fin(0), r.Avg_LPI)
                   /\ Leq(r.Avg_LPI, Fin(5))
              ELSE ~IsFin(r.Avg_LPI)

\* C7: every call of load_data returns the table the first call computed, the
\* same records in the same order with the same derived fields, and that is
\* the memoized value.
C7_MemoizedLoadEqualsFirst ==
    df # None =>
       /\ df = first_df
       /\ cache = first_df
       /\ Len(The(df)) = Len(source.rows)
       /\ \A i \in 1..Len(The(df)) :
             /\ "Avg_LPI" \in DOMAIN The(df)[i]
             /\ "Trade_per_Capita" \in DOMAIN The(df)[i]
             /\ \A c \in DOMAIN source.rows[i] : The(df)[i][c] = source.rows[i][c]

\* C7's case: a later run's load_data() was answered from the memo.
C7_Witness ==
    /\ cache_hit
    /\ df # None
    /\ Len(The(df)) = 2

\* C8: no step changes the prepared table: df, once bound, is the same table
\* after every step of the run and in every later run, and the memo never
\* changes once set.
C8_TableImmutable ==
    [][ /\ (df # None /\ df' # None) => df' = df
        /\ cache # None => cache' = cache
        /\ (df # None /\ cache # None) => df = cache ]_vars

\* C8's case: in a later run, after the filter, the KPI sums and the group-by
\* of the trend, with a view that is a proper part of the table.
C8_Witness ==
    /\ cache_hit
    /\ time_df # None
    /\ filtered_df # None
    /\ Len(The(filtered_df)) < Len(The(df))
    /\ df = cache

\* The view of a selection, record by record.
ExpectedView(t, year, countries) ==
    SelectSeq(t, LAMBDA r : Matches(r, year, countries))

\* C9: whenever a page is rendered, the filtered view is the one of the current
\* selection (the session's year and countries) over the prepared table, and
\* the KPI aggregates are those of that view: 'no data' when it is empty, the
\* sums of its columns otherwise.
C9_ShownMatchesCurrentSelection ==
    \A k \in 1..3 :
       page[k] # "none" =>
          /\ session.year # None
          /\ session.country # None
          /\ LET w == ExpectedView(The(cache), The(session.year), The(session.country))
             IN  /\ filtered_df = Some(w)
                 /\ (page[k] = "nodata") <=> (w = <<>>)
                 /\ w = <<>> => kpi = {}
                 /\ (k = 1 /\ w # <<>>) =>
                       /\ tab1_kpis(w) \subseteq kpi
                       /\ time_df = Some(trend(The(cache), The(session.country)))

\* C9's case: the user has changed both the year and the countries, and the
\* Trade Overview of the new selection is rendered.
C9_Witness ==
    /\ cache_hit
    /\ page[1] = "kpis"
    /\ session.country # None
    /\ The(session.country) # {"All"}
    /\ session.year # None
    /\ \E y \in YearsOf(The(cache)) : y > The(session.year)

\* C10: when 'All' is selected together with named countries, the view is
\* every record of the selected year and the trend sums Export and Import over
\* every country of each year; when nothing is selected, the view is empty.
C10_SentinelWins ==
    /\ (filtered_df # None /\ "All" \in The(selected_country)) =>
          The(filtered_df) =
             SelectSeq(The(df), LAMBDA r : r.Year = The(selected_year))
    /\ (time_df # None /\ "All" \in The(selected_country)) =>
          LET t == The(df)
              s == The(time_df)
          IN  /\ {s[k].Year : k \in 1..Len(s)} = YearsOf(t)
              /\ Len(s) = Cardinality(YearsOf(t))
              /\ \A k \in 1..Len(s) :
                    LET rows == SelectSeq(t, LAMBDA r : r.Year = s[k].Year)
                    IN  /\ s[k].Export = SumSkipNa(Column(rows, "Export"))
                        /\ s[k].Import = SumSkipNa(Column(rows, "Import"))
    /\ (filtered_df # None /\ selected_country = Some({})) =>
          The(filtered_df) = <<>>

\* C10's case: 'All' and Fiji are selected, the table holds a Tonga record of
\* the selected year, and the trend is drawn.
C10_Witness ==
    /\ selected_country = Some({"All", "Fiji"})
    /\ time_df # None
    /\ \E i \in 1..Len(The(filtered_df)) : The(filtered_df)[i].Country = "Tonga"

\* C10's other case: nothing is selected and the filter has run.
C10_WitnessEmptySelection ==
    /\ selected_country = Some({})
    /\ filtered_df = Some(<<>>)
    /\ pc = "done"

=============================================================================
